---- MODULE Spec2Model ----
(***************************************************************************)
(* Sentence boundary extraction and citation normalisation of the         *)
(* SutraPrayogaInKavyas scripts:                                           *)
(*   scripts/SutraPrayogaExtract.py    extract_sentences_with_sutra        *)
(*   scripts/SutraSentenceProcessor.py SutraSentenceProcessor              *)
(*                                                                         *)
(* A Python str is a sequence of one-character strings.  Indices and       *)
(* slices follow Python (0-based, half-open, clamped) through At and       *)
(* Slice, so that every bound below reads as in the source.                *)
(*                                                                         *)
(* The module language has ASCII strings only; the four Devanagari code    *)
(* points the code looks at are written                                    *)
(*      "P" = U+092A (pa)        "A" = U+093E (vowel sign aa)              *)
(*      "D" = U+0964 (danda)     "W" = U+0965 (double danda)               *)
(* the backtick U+0060 is written "q",                                     *)
(* and "x" stands for any other letter.  The code distinguishes characters *)
(* only by equality with these and by the classes \d and \s.               *)
(***************************************************************************)
EXTENDS Integers, Sequences, FiniteSets, TLC

(***************************************************************************)
(* Python helpers                                                          *)
(***************************************************************************)
Min2(a, b) == IF a <= b THEN a ELSE b
Max2(a, b) == IF a >= b THEN a ELSE b

SetMin(S) == CHOOSE m \in S : \A n \in S : m <= n
SetMax(S) == CHOOSE m \in S : \A n \in S : m >= n

\* text[i], 0-based
At(t, i) == t[i + 1]

\* text[a:b] for 0 <= a, 0 <= b
Slice(t, a, b) == SubSeq(t, a + 1, Min2(b, Len(t)))

\* Optional[...]: None is the empty tuple, a value x is <<x>>
None == <<>>
Some(x) == <<x>>

Digits == {"0", "1", "2", "3", "4", "5", "6", "7", "8", "9"}
WhiteSpace == {" ", "\t", "\n"}
Dandas == {"D", "W"}
Separators == {"D", "|"}

IsDigit(c) == c \in Digits
IsSpace(c) == c \in WhiteSpace
IsDanda(c) == c \in Dandas

\* number of occurrences of character c in t: str.count
Count(t, c) == Cardinality({i \in 1..Len(t) : t[i] = c})

\* the first index >= i (0-based) of t whose character is not in class S
RECURSIVE RunEnd(_, _, _)
RunEnd(t, i, S) ==
    IF i < Len(t) /\ At(t, i) \in S THEN RunEnd(t, i + 1, S) ELSE i

\* str.strip()
LStripPos(t) == RunEnd(t, 0, WhiteSpace)
RECURSIVE RStripPos(_, _)
RStripPos(t, j) ==
    IF j > 0 /\ IsSpace(At(t, j - 1)) THEN RStripPos(t, j - 1) ELSE j
Strip(t) ==
    LET a == LStripPos(t)
        b == RStripPos(t, Len(t))
    IN  IF a >= b THEN <<>> ELSE Slice(t, a, b)

(***************************************************************************)
(* The citation marker pattern                                             *)
(*      \(pa\.(\d+)[D|](\d+)[D|](\d+)\)                                    *)
(* as its sequence of items: a character class, taken once or (plus) one   *)
(* or more times.  The classes of consecutive items are disjoint, so a     *)
(* match at a position, if any, is unique and needs no backtracking.       *)
(***************************************************************************)
Once(S) == [set |-> S, plus |-> FALSE]
Plus(S) == [set |-> S, plus |-> TRUE]

SutraPattern ==
    <<Once({"("}), Once({"P"}), Once({"A"}), Once({"."}),
      Plus(Digits), Once(Separators), Plus(Digits), Once(Separators), Plus(Digits),
      Once({")"})>>

PrependIfMatched(i, rest) == IF rest = <<>> THEN <<>> ELSE <<i>> \o rest

\* items k.. of the pattern matched at i: the positions where each of them
\* starts, then the end of the match; <<>> if they do not match
RECURSIVE MatchTrace(_, _, _)
MatchTrace(t, i, k) ==
    IF k > Len(SutraPattern) THEN <<i>>
    ELSE IF ~(i < Len(t) /\ At(t, i) \in SutraPattern[k].set) THEN <<>>
         ELSE PrependIfMatched(i,
                  MatchTrace(t,
                             IF SutraPattern[k].plus
                             THEN RunEnd(t, i, SutraPattern[k].set)
                             ELSE i + 1,
                             k + 1))

TraceEnd(tr) == IF tr = <<>> THEN -1 ELSE tr[Len(tr)]

\* re.match at position p (0-based): the end of the match, or -1
MatchAt(t, p) == TraceEnd(MatchTrace(t, p, 1))

\* the match object: start(), end() and group(1), group(2), group(3)
MatchOfTrace(t, tr) ==
    [start |-> tr[1], end |-> tr[11],
     g1 |-> Slice(t, tr[5], tr[6]),
     g2 |-> Slice(t, tr[7], tr[8]),
     g3 |-> Slice(t, tr[9], tr[10])]

MatchObj(t, p) == MatchOfTrace(t, MatchTrace(t, p, 1))

\* re.finditer(sutra_pattern, t): the non-overlapping matches, left to right
RECURSIVE FindIterFrom(_, _)
FindIterFrom(t, p) ==
    IF p >= Len(t) THEN <<>>
    ELSE IF MatchAt(t, p) = -1 THEN FindIterFrom(t, p + 1)
         ELSE <<MatchObj(t, p)>> \o FindIterFrom(t, MatchAt(t, p))

FirstMatch(ms) == IF ms = <<>> THEN None ELSE Some(ms[1])
LastMatch(ms) == IF ms = <<>> THEN None ELSE Some(ms[Len(ms)])

\* faulty variant: re.search in place of re.finditer, only the first match
FindIter_FirstOnly(t) == FirstMatch(FindIterFrom(t, 0))

FindIter(t) == FindIterFrom(t, 0)

\* re.search(sutra_pattern, t): the first match as an Optional
Search(t) == FirstMatch(FindIter(t))

\* faulty variant: the danda is the only separator
ExtractorPattern_DandaOnly ==
    <<Once({"("}), Once({"P"}), Once({"A"}), Once({"."}),
      Plus(Digits), Once({"D"}), Plus(Digits), Once({"D"}), Plus(Digits),
      Once({")"})>>

\* the pattern written out in extract_sutra_prayogas, without groups:
\*      \(pa\.\d+[D|]\d+[D|]\d+\)
ExtractorPattern ==
    <<Once({"("}), Once({"P"}), Once({"A"}), Once({"."}),
      Plus(Digits), Once({"D", "|"}), Plus(Digits), Once({"D", "|"}), Plus(Digits),
      Once({")"})>>

\* items k.. of the pattern pat matched at i: the end of the match, or -1
RECURSIVE PatternEnd(_, _, _, _)
PatternEnd(pat, t, i, k) ==
    IF k > Len(pat) THEN i
    ELSE IF ~(i < Len(t) /\ At(t, i) \in pat[k].set) THEN -1
         ELSE PatternEnd(pat, t,
                         IF pat[k].plus THEN RunEnd(t, i, pat[k].set) ELSE i + 1,
                         k + 1)

\* the next position to try, and the match found at p if any
NextAfter(p, e) == IF e = -1 THEN p + 1 ELSE e
FoundAt(p, e) == IF e = -1 THEN <<>> ELSE <<<<p, e>>>>

\* re.finditer(pat, t) from p on: (start(), end()) of every match
RECURSIVE FindAllFrom(_, _, _, _)
FindAllFrom(pat, t, p, e) ==
    IF p >= Len(t) THEN <<>>
    ELSE FoundAt(p, e)
           \o FindAllFrom(pat, t, NextAfter(p, e),
                          PatternEnd(pat, t, NextAfter(p, e), 1))

FindAll(pat, t) == FindAllFrom(pat, t, 0, PatternEnd(pat, t, 0, 1))

\* (start(), end()) of the matches ms
StartEnds(ms) == [k \in 1 .. Len(ms) |-> <<ms[k].start, ms[k].end>>]

(***************************************************************************)
(* SutraPrayogaExtract.extract_sentences_with_sutra                        *)
(***************************************************************************)
\* the look-behind window for a previous marker (characters)
PrevSutraWindow == 200
\* the look-behind window for an opening bracket before a danda (characters)
ParenWindow == 50

\* the first and the last hit of a scan over indices, or the default
FirstOr(S, default) == IF S = {} THEN default ELSE SetMin(S)
LastOr(S, default) == IF S = {} THEN default ELSE SetMax(S)

\* prev_sutra_match: the last match inside text[max(0, sutra_start-200):sutra_start]
PrevSutraMatch(text, sutra_start) ==
    LastMatch(FindIter(Slice(text, Max2(0, sutra_start - PrevSutraWindow), sutra_start)))

\* lines 72-73: the text between a comma and the marker qualifies
TextBetweenOk(text_between) ==
    text_between # <<>> /\ Search(text_between) = None

\* lines 61-76: the commas that the forward scan accepts as a start
CommaStartsAfter(text, sutra_start, prev_sutra_match) ==
    IF prev_sutra_match = None THEN {}
    ELSE {i \in Max2(0, sutra_start - PrevSutraWindow) + prev_sutra_match[1].end
                .. sutra_start - 1 :
             /\ At(text, i) = ","
             /\ TextBetweenOk(Strip(Slice(text, i + 1, sutra_start)))}

CommaStarts(text, sutra_start) ==
    CommaStartsAfter(text, sutra_start, PrevSutraMatch(text, sutra_start))

\* str.rfind('(') in t: the last index, or -1
RFindOpen(t) == LastOr({k \in 0 .. Len(t) - 1 : At(t, k) = "("}, -1)

\* lines 91-107 for the text_segment that ends with the danda
SegmentAccepts(text_segment, last_open_paren) ==
    IF last_open_paren # -1
    THEN Count(Slice(text_segment, last_open_paren, Len(text_segment)), ")") > 0
    ELSE TRUE

SegmentAccepted(text_segment) == SegmentAccepts(text_segment, RFindOpen(text_segment))

\* lines 81-107: the danda at i is taken as a sentence boundary by the backward scan
LeftDandaAccepted(text, i) ==
    /\ IsDanda(At(text, i))
    /\ SegmentAccepted(Slice(text, Max2(0, i - ParenWindow), i + 1))

\* lines 78-107: sentence_start set by the backward scan
DandaStart(text, sutra_start) ==
    LastOr({i \in 0 .. sutra_start - 1 : LeftDandaAccepted(text, i)}, -1) + 1

\* faulty variant: a danda found by the backward scan wins over the comma
CommaOrDanda_DandaWins(commas, danda_start) ==
    IF commas # {} /\ danda_start = 0 THEN SetMin(commas) + 1 ELSE danda_start

\* lines 74-78: the comma start wins over the backward scan
CommaOrDanda(commas, danda_start) ==
    IF commas # {} THEN SetMin(commas) + 1 ELSE danda_start

\* lines 52-107: sentence_start of the occurrence starting at sutra_start
SentenceStart(text, sutra_start) ==
    CommaOrDanda(CommaStarts(text, sutra_start), DandaStart(text, sutra_start))

\* lines 114-117: text_before holds no more '(' than ')'
Balanced(text_before) == Count(text_before, "(") <= Count(text_before, ")")

\* lines 112-120: the danda at i is taken as the end by the forward scan
RightDandaAccepted(text, sutra_end, i) ==
    /\ IsDanda(At(text, i))
    /\ Balanced(Slice(text, sutra_end, i))

\* faulty variant: without an accepted danda the sentence ends with the marker
TentativeEnd_AtMarker(text, sutra_end) ==
    FirstOr({i \in sutra_end .. Len(text) - 1 : RightDandaAccepted(text, sutra_end, i)},
            sutra_end - 1) + 1

\* lines 110-120: the tentative sentence_end
TentativeEnd(text, sutra_end) ==
    FirstOr({i \in sutra_end .. Len(text) - 1 : RightDandaAccepted(text, sutra_end, i)},
            Len(text) - 1) + 1

\* faulty variant: cut at the last comma before the next marker
CommaCut_LastComma(text, sutra_end, sentence_end, next_sutra_match) ==
    IF next_sutra_match = None THEN sentence_end
    ELSE LastOr({i \in sutra_end .. sutra_end + next_sutra_match[1].start - 1 :
                    At(text, i) = ","},
                sentence_end)

\* lines 125-133: cut at the first comma before the next marker
CommaCut(text, sutra_end, sentence_end, next_sutra_match) ==
    IF next_sutra_match = None THEN sentence_end
    ELSE FirstOr({i \in sutra_end .. sutra_end + next_sutra_match[1].start - 1 :
                     At(text, i) = ","},
                 sentence_end)

\* lines 122-133 for the tentative sentence_end
EndAfterCut(text, sutra_end, sentence_end) ==
    CommaCut(text, sutra_end, sentence_end,
             Search(Slice(text, sutra_end, sentence_end)))

\* lines 110-133: sentence_end of the occurrence ending at sutra_end
SentenceEnd(text, sutra_end) ==
    EndAfterCut(text, sutra_end, TentativeEnd(text, sutra_end))

\* faulty variant: the sentence is the stretch between the dandas nearest to
\* the marker's first character, whether or not they lie inside a marker
SpanOf_NaiveDanda(text, m) ==
    [sutra_start |-> m.start, sutra_end |-> m.end,
     sentence_start |->
         LastOr({i \in 0 .. m.start - 1 : IsDanda(At(text, i))}, -1) + 1,
     sentence_end |->
         FirstOr({i \in m.start .. Len(text) - 1 : IsDanda(At(text, i))},
                 Len(text) - 1) + 1]

\* the locals of one iteration of the loop over the matches (lines 46-133)
SpanOf(text, m) ==
    [sutra_start |-> m.start, sutra_end |-> m.end,
     sentence_start |-> SentenceStart(text, m.start),
     sentence_end |-> SentenceEnd(text, m.end)]

\* the locals of every iteration, for the matches ms
SpansOf(text, ms) == [k \in 1 .. Len(ms) |-> SpanOf(text, ms[k])]

\* line 136: text[sentence_start:sentence_end].strip()
SpanSentence(text, sp) == Strip(Slice(text, sp.sentence_start, sp.sentence_end))

\* line 136: the sentence of one occurrence
SentenceOf(text, m) == SpanSentence(text, SpanOf(text, m))

SeqToSet(s) == {s[i] : i \in 1 .. Len(s)}

\* faulty variant: no check against seen_sentences
AppendIfNew_NoSeen(sentences, sentence) ==
    IF sentence # <<>> THEN Append(sentences, sentence) ELSE sentences

\* lines 138-141: append unless empty or already seen
AppendIfNew(sentences, sentence) ==
    IF sentence # <<>> /\ sentence \notin SeqToSet(sentences)
    THEN Append(sentences, sentence)
    ELSE sentences

\* lines 42-143: the loop over the matches ms, from the k-th on
RECURSIVE CollectSentences(_, _, _, _)
CollectSentences(text, ms, k, sentences) ==
    IF k > Len(ms) THEN sentences
    ELSE CollectSentences(text, ms, k + 1,
                          AppendIfNew(sentences, SentenceOf(text, ms[k])))

\* the spans, then the whole text in place of an empty result
OrWholeText(found, text) ==
    IF found = <<>> /\ Strip(text) # <<>> THEN <<Strip(text)>> ELSE found

\* faulty variant: a text without any match is returned whole
extract_sentences_WholeText(text) ==
    OrWholeText(CollectSentences(text, FindIter(text), 1, <<>>), text)

extract_sentences_with_sutra(text) ==
    CollectSentences(text, FindIter(text), 1, <<>>)

\* faulty variant: the list of an earlier call is carried into the next call
NewSentences_Kept(left_behind) == left_behind

\* lines 42-43: sentences = [] and seen_sentences = set() are made anew at
\* every call, whatever list an earlier call left behind
NewSentences(left_behind) == <<>>

\* one call of extract_sentences_with_sutra in a process where an earlier call
\* has left the list left_behind
ExtractCall(text, left_behind) ==
    CollectSentences(text, FindIter(text), 1, NewSentences(left_behind))

(***************************************************************************)
(* SutraSentenceProcessor                                                  *)
(***************************************************************************)
\* "a.b.c" of a match
SutraNum(m) == m.g1 \o <<".">> \o m.g2 \o <<".">> \o m.g3

\* lines 38-41
ReferenceOf(match) == IF match # None THEN Some(SutraNum(match[1])) ELSE None

extract_sutra_reference(text) == ReferenceOf(Search(text))

\* re.sub(sutra_pattern, '', t)
RECURSIVE RemoveSutras(_, _)
RemoveSutras(t, p) ==
    IF p >= Len(t) THEN <<>>
    ELSE IF MatchAt(t, p) = -1 THEN <<At(t, p)>> \o RemoveSutras(t, p + 1)
         ELSE RemoveSutras(t, MatchAt(t, p))

\* the rest of r'^\s*\d+\)\s*[DW]*\s*' after the digits that end at b
AfterLeadingNumber(t, a, b) ==
    IF b > a /\ b < Len(t) /\ At(t, b) = ")"
    THEN Slice(t,
               RunEnd(t, RunEnd(t, RunEnd(t, b + 1, WhiteSpace), Dandas), WhiteSpace),
               Len(t))
    ELSE t

\* the rest of that pattern after the leading white space that ends at a
AfterLeadingSpace(t, a) == AfterLeadingNumber(t, a, RunEnd(t, a, Digits))

\* re.sub(r'^\s*\d+\)\s*[DW]*\s*', '', t)
RemoveLeadingNumber(t) == AfterLeadingSpace(t, RunEnd(t, 0, WhiteSpace))

\* re.sub(r'\s+', ' ', t)
RECURSIVE CollapseSpaces(_, _)
CollapseSpaces(t, p) ==
    IF p >= Len(t) THEN <<>>
    ELSE IF IsSpace(At(t, p))
         THEN <<" ">> \o CollapseSpaces(t, RunEnd(t, p, WhiteSpace))
         ELSE <<At(t, p)>> \o CollapseSpaces(t, p + 1)

\* the rest of r'^[DW]+\s*' after the dandas that end at a
AfterLeadingDandas(t, a) ==
    IF a > 0 THEN Slice(t, RunEnd(t, a, WhiteSpace), Len(t)) ELSE t

\* re.sub(r'^[DW]+\s*', '', t)
RemoveLeadingDandas(t) == AfterLeadingDandas(t, RunEnd(t, 0, Dandas))

\* lines 60-73: steps 2 to 5 and the final strip
CleanRest(step1) ==
    Strip(RemoveLeadingDandas(Strip(CollapseSpaces(RemoveLeadingNumber(step1), 0))))

\* step 1 with count=1: the first match cut out
RemoveFirst(text, m) ==
    IF m = None THEN text
    ELSE Slice(text, 0, m[1].start) \o Slice(text, m[1].end, Len(text))

\* faulty variant: the backticks are removed with the markers
NotBacktick(c) == c # "q"
clean_sentence_NoBackticks(text) ==
    CleanRest(RemoveSutras(SelectSeq(text, NotBacktick), 0))

\* faulty variant: step 1 removes the first marker only (re.sub with count=1)
clean_sentence_FirstOnly(text) == CleanRest(RemoveFirst(text, Search(text)))

clean_sentence(text) == CleanRest(RemoveSutras(text, 0))

Record(sutra, sentence) == [sutra |-> sutra, word |-> <<>>, sentence |-> sentence]

\* lines 88-100
RecordOrNone(sutra, sentence) ==
    IF sutra = None THEN None
    ELSE Some(Record(sutra[1], clean_sentence(sentence)))

process_sentence(sentence) ==
    RecordOrNone(extract_sutra_reference(sentence), sentence)

\* lines 122-130: one record per match, each with the cleaned sentence
FanOut(all_sutras, cleaned_text) ==
    [i \in 1 .. Len(all_sutras) |-> Record(SutraNum(all_sutras[i]), cleaned_text)]

\* lines 133-135: the result is kept if it is a record with a sentence
KeepResult(result) ==
    IF result # None /\ result[1].sentence # <<>> THEN <<result[1]>> ELSE <<>>

\* lines 120-135
RecordsFor(sentence, all_sutras) ==
    IF Len(all_sutras) > 1
    THEN FanOut(all_sutras, clean_sentence(sentence))
    ELSE KeepResult(process_sentence(sentence))

\* every record of a sentence with the citation of extract_sutra_reference
FirstSutraFanOut(all_sutras, sutra, cleaned_text) ==
    [i \in 1 .. Len(all_sutras) |-> Record(sutra[1], cleaned_text)]

RecordsFor_FirstSutra(sentence, all_sutras) ==
    IF Len(all_sutras) > 1
    THEN FirstSutraFanOut(all_sutras, extract_sutra_reference(sentence),
                          clean_sentence(sentence))
    ELSE KeepResult(process_sentence(sentence))

\* faulty variant: every record of a multi-marker sentence takes the citation
\* from extract_sutra_reference, the first marker
RecordsOf_FirstSutra(sentence) == RecordsFor_FirstSutra(sentence, FindIter(sentence))

\* faulty variant: a single-marker record is kept although its sentence is empty
KeepResult_KeepEmpty(result) ==
    IF result # None THEN <<result[1]>> ELSE <<>>

RecordsFor_KeepEmpty(sentence, all_sutras) ==
    IF Len(all_sutras) > 1
    THEN FanOut(all_sutras, clean_sentence(sentence))
    ELSE KeepResult_KeepEmpty(process_sentence(sentence))

RecordsOf_KeepEmpty(sentence) == RecordsFor_KeepEmpty(sentence, FindIter(sentence))

\* lines 118-135: the records of one sentence
RecordsOf(sentence) == RecordsFor(sentence, FindIter(sentence))

\* faulty variant: the loop ends at the first sentence that has no citation
RECURSIVE process_sentences_StopAtNone(_)
process_sentences_StopAtNone(sentences) ==
    IF sentences = <<>> THEN <<>>
    ELSE IF process_sentence(Head(sentences)) = None THEN <<>>
         ELSE RecordsOf(Head(sentences)) \o process_sentences_StopAtNone(Tail(sentences))

RECURSIVE process_sentences(_)
process_sentences(sentences) ==
    IF sentences = <<>> THEN <<>>
    ELSE RecordsOf(Head(sentences)) \o process_sentences(Tail(sentences))

(***************************************************************************)
(* The inputs: commentary strings built from at most MaxPieces pieces      *)
(***************************************************************************)
MaxPieces == 3

\* two complete markers (danda separated and pipe separated), a marker cut
\* before its third digit group and the rest of a cut marker, a bracketed
\* reference that is no citation marker, and single characters
Marker1 == <<"(", "P", "A", ".", "1", "D", "2", "D", "3", ")">>
Marker2 == <<"(", "P", "A", ".", "1", "0", "|", "5", "|", "6", ")">>
CutMarker == <<"(", "P", "A", ".", "1", "D", "2", "D">>
CutTail == <<"3", ")">>
OtherRef == <<"(", "x", ")">>
Pieces ==
    {Marker1, Marker2, CutMarker, CutTail, OtherRef,
     <<"x">>, <<" ">>, <<",">>, <<"D">>, <<")">>}

RECURSIVE Join(_)
Join(ps) == IF ps = <<>> THEN <<>> ELSE Head(ps) \o Join(Tail(ps))

Texts == {Join(ps) : ps \in UNION {[1 .. n -> Pieces] : n \in 0 .. MaxPieces}}

\* second sentences for lists given to process_sentences directly: one without
\* and one with a citation
NoSutraSentence == <<"x", " ", "x", "D">>
SutraSentence == <<"q", "x", "q", " ">> \o Marker1 \o <<"D">>

(***************************************************************************)
(* State: one commentary string taken through the two phases, or handed    *)
(* to one of the processor's methods directly                              *)
(***************************************************************************)
VARIABLES
    mn,            \* the commentary string (entry['mn'])
    pc,            \* where the caller is
    spans,         \* phase 1, per match in order: sutra_start, sutra_end,
                   \* sentence_start, sentence_end of that iteration
    sentences,     \* the list of raw sentences (entry['sutra_sentences'])
    processed,     \* the list of records returned by process_sentences
    processed_by,  \* per raw sentence, the records its iteration appended
    cleaned,       \* the return value of a direct clean_sentence call
    result,        \* the return value of a direct process_sentence call
    seen_before,   \* the list the previous extract call built and returned
    first_output,  \* what the first of two runs on mn returned
    found_by_extractor,  \* (start, end) of the matches of the extractor's pattern
    found_by_processor,  \* (start, end) of the matches of the processor's pattern
    data,            \* the corpus file's 'data': its entries, in order
    heap,            \* the dictionaries the two phases create, in creation order
    results,         \* phase 1's list: references into heap
    results_before,  \* the values of the dictionaries when phase 2 begins
    enhanced_results,  \* phase 2's list: references into heap
    script,       \* which enrichment script runs
    verses,       \* extract_data['data']: per verse, whether the source has a
                  \* commentary for its loc, and its sutra_sentences
    vi,           \* the verse the pass is at
    si,           \* the record of that verse the pass is at
    attempt,      \* the retry that comes next (0: none)
    outcomes,     \* the outcomes of the service calls made for the last record
    sleeps,       \* the waits before the retries for that record, in order
    called,       \* the records the service was called for in this pass
    returned,     \* what find_word_and_description returned last
    pass_start,   \* verses as they were when the pass began
    all_data,           \* the extract files read, in the order of the listing
    ai_ref_lookup,      \* build_ai_ref_lookup's dict: key to (description, pada)
    sutra_dict,         \* aggregate_by_sutra's dict: (key, list) in insertion order
    sorted_sutra_dict,  \* sort_sutra_dict's dict, in insertion order
    verse_text,   \* find_pada_for_word's first argument
    word,         \* its second argument
    pada          \* what it returned

coreVars == <<mn, pc, spans, sentences, processed, processed_by, cleaned, result>>
twiceVars == <<seen_before, first_output>>
patternVars == <<found_by_extractor, found_by_processor>>
pipelineVars == <<data, heap, results, results_before, enhanced_results>>
enrichVars == <<script, verses, vi, si, attempt, outcomes, sleeps, called,
                returned, pass_start>>
aggVars == <<all_data, ai_ref_lookup, sutra_dict, sorted_sutra_dict>>
padaVars == <<verse_text, word, pada>>
vars == <<coreVars, twiceVars, patternVars, pipelineVars, enrichVars, aggVars,
          padaVars>>

\* what the actions of one script leave alone: the state of the others
beyondCore == <<twiceVars, patternVars, pipelineVars, enrichVars, aggVars, padaVars>>
beyondTwice == <<patternVars, pipelineVars, enrichVars, aggVars, padaVars>>
beyondPattern == <<spans, sentences, processed, processed_by, cleaned, result,
                   twiceVars, pipelineVars, enrichVars, aggVars, padaVars>>
beyondPipeline == <<mn, spans, sentences, processed, processed_by, cleaned, result,
                    twiceVars, patternVars, enrichVars, aggVars, padaVars>>
beyondEnrich == <<mn, spans, sentences, processed, processed_by, cleaned, result,
                  twiceVars, patternVars, pipelineVars, aggVars, padaVars>>
beyondAgg == <<mn, spans, sentences, processed, processed_by, cleaned, result,
               twiceVars, patternVars, pipelineVars, enrichVars, padaVars>>
beyondPada == <<mn, spans, sentences, processed, processed_by, cleaned, result,
                twiceVars, patternVars, pipelineVars, enrichVars, aggVars>>

\* nothing has run yet
CoreIdle ==
    /\ pc = "start"
    /\ spans = <<>>
    /\ sentences = <<>>
    /\ processed = <<>>
    /\ processed_by = <<>>
    /\ cleaned = <<>>
    /\ result = None
    /\ seen_before = <<>>
    /\ first_output = None
    /\ found_by_extractor = <<>>
    /\ found_by_processor = <<>>

PipelineIdle ==
    /\ heap = <<>>
    /\ results = <<>>
    /\ results_before = <<>>
    /\ enhanced_results = <<>>

EnrichIdle ==
    /\ vi = 0
    /\ si = 0
    /\ attempt = 0
    /\ outcomes = <<>>
    /\ sleeps = <<>>
    /\ called = <<>>
    /\ returned = <<"", "">>
    /\ pass_start = <<>>

AggIdle ==
    /\ ai_ref_lookup = <<>>
    /\ sutra_dict = <<>>
    /\ sorted_sutra_dict = <<>>

NoAggregation ==
    /\ all_data = <<>>
    /\ AggIdle

NoPada ==
    /\ verse_text = <<>>
    /\ word = <<>>
    /\ pada = <<>>

NoEnrichment ==
    /\ script = "none"
    /\ verses = <<>>
    /\ EnrichIdle

Init ==
    /\ mn \in Texts
    /\ CoreIdle
    /\ data = <<>>
    /\ PipelineIdle
    /\ NoEnrichment
    /\ NoAggregation
    /\ NoPada

\* phase 1: extract_sutra_prayogas calls extract_sentences_with_sutra(mn, sutra_pattern)
ExtractSentences ==
    /\ pc = "start"
    /\ spans' = SpansOf(mn, FindIter(mn))
    /\ sentences' = extract_sentences_with_sutra(mn)
    /\ pc' = "extracted"
    /\ UNCHANGED <<mn, processed, processed_by, cleaned, result>>
    /\ UNCHANGED beyondCore

\* a caller holds a list of raw sentences of its own (an entry read back from
\* the phase 1 file, a test): mn alone, or mn after or before another sentence
LoadSentences ==
    /\ pc = "start"
    /\ sentences' \in {<<mn>>, <<NoSutraSentence, mn>>, <<mn, SutraSentence>>}
    /\ pc' = "loaded"
    /\ UNCHANGED <<mn, spans, processed, processed_by, cleaned, result>>
    /\ UNCHANGED beyondCore

\* phase 2: processor.process_sentences(sentences)
ProcessSentences ==
    /\ pc \in {"extracted", "loaded"}
    /\ processed' = process_sentences(sentences)
    /\ processed_by' = [i \in 1 .. Len(sentences) |-> RecordsOf(sentences[i])]
    /\ pc' = IF pc = "extracted" THEN "processed" ELSE "processed_loaded"
    /\ UNCHANGED <<mn, spans, sentences, cleaned, result>>
    /\ UNCHANGED beyondCore

\* processor.clean_sentence(mn, mn)
CleanSentence ==
    /\ pc = "start"
    /\ cleaned' = clean_sentence(mn)
    /\ pc' = "cleaned"
    /\ UNCHANGED <<mn, spans, sentences, processed, processed_by, result>>
    /\ UNCHANGED beyondCore

\* processor.process_sentence(mn)
ProcessSentence ==
    /\ pc = "start"
    /\ result' = process_sentence(mn)
    /\ pc' = "sentence_done"
    /\ UNCHANGED <<mn, spans, sentences, processed, processed_by, cleaned>>
    /\ UNCHANGED beyondCore

Next ==
    \/ ExtractSentences
    \/ LoadSentences
    \/ ProcessSentences
    \/ CleanSentence
    \/ ProcessSentence

Spec == Init /\ [][Next]_vars

(***************************************************************************)
(* Vocabulary of the properties                                            *)
(***************************************************************************)
\* the positions where a citation marker occurs in t
MarkerStarts(t) == {p \in 0 .. Len(t) - 1 : MatchAt(t, p) # -1}

\* the marker occurring at p, as text
MarkerText(t, p) == Slice(t, p, MatchAt(t, p))

\* sub occurs in t
Contains(t, sub) ==
    \E a \in 0 .. Len(t) - Len(sub) : Slice(t, a, a + Len(sub)) = sub

\* the k-th smallest element of a set of numbers
RECURSIVE KthSmallest(_, _)
KthSmallest(S, k) ==
    IF k = 1 THEN SetMin(S) ELSE KthSmallest(S \ {SetMin(S)}, k - 1)

\* c is the citation of the marker text mk: c is three digit runs joined by
\* dots, and the marker is those runs in brackets after the tag, separated
\* by a danda or a pipe
IsCitationOf(c, mk) ==
    \E i \in 2 .. Len(c) - 1 : \E j \in i + 2 .. Len(c) - 1 :
        /\ c[i] = "." /\ c[j] = "."
        /\ \A n \in 1 .. Len(c) : n \notin {i, j} => IsDigit(c[n])
        /\ \E s1 \in Separators : \E s2 \in Separators :
              mk = <<"(", "P", "A", ".">> \o SubSeq(c, 1, i - 1) \o <<s1>>
                      \o SubSeq(c, i + 1, j - 1) \o <<s2>>
                      \o SubSeq(c, j + 1, Len(c)) \o <<")">>

RECURSIVE Concat(_)
Concat(ss) == IF ss = <<>> THEN <<>> ELSE Head(ss) \o Concat(Tail(ss))

\* the positions of t that lie inside a marker occurrence
MarkerPositions(t) ==
    UNION {p .. MatchAt(t, p) - 1 : p \in MarkerStarts(t)}

\* t without the characters at the positions in S
RECURSIVE Without(_, _, _)
Without(t, S, i) ==
    IF i >= Len(t) THEN <<>>
    ELSE (IF i \in S THEN <<>> ELSE <<At(t, i)>>) \o Without(t, S, i + 1)

\* t without the characters that lie inside a marker occurrence
WithoutMarkers(t) == Without(t, MarkerPositions(t), 0)

\* the text between sentence_start and sentence_end of iteration k, trimmed
SpanText(k) == SpanSentence(mn, spans[k])

(***************************************************************************)
(* C1  A commentary string with exactly one citation marker yields exactly *)
(* one span, and the marker is a substring of that span.                   *)
(***************************************************************************)
C1_OneMarkerOneSpan ==
    (pc = "extracted" /\ Cardinality(MarkerStarts(mn)) = 1) =>
        /\ Len(sentences) = 1
        /\ \A p \in MarkerStarts(mn) : Contains(sentences[1], MarkerText(mn, p))

\* one marker, and the backward scan cut off the text before an accepted danda
C1_Witness ==
    /\ pc = "extracted"
    /\ Cardinality(MarkerStarts(mn)) = 1
    /\ Len(sentences) = 1
    /\ spans[1].sentence_start > 0
    /\ spans[1].sentence_start < spans[1].sutra_start
    /\ Len(sentences[1]) < Len(mn)

(***************************************************************************)
(* C2  The span computed for a marker occurrence starts at or before the   *)
(* marker's first character and ends at or after its last one; every       *)
(* returned span holds a complete marker and every marker occurrence lies  *)
(* whole in a returned span.                                               *)
(***************************************************************************)
C2_SpanCoversMarker ==
    pc = "extracted" =>
        /\ {spans[k].sutra_start : k \in 1 .. Len(spans)} = MarkerStarts(mn)
        /\ \A k \in 1 .. Len(spans) :
              /\ spans[k].sentence_start <= spans[k].sutra_start
              /\ spans[k].sentence_end >= spans[k].sutra_end
              /\ spans[k].sutra_end = MatchAt(mn, spans[k].sutra_start)
              /\ SpanText(k) \in SeqToSet(sentences)
              /\ Contains(SpanText(k), MarkerText(mn, spans[k].sutra_start))
        /\ \A i \in 1 .. Len(sentences) : MarkerStarts(sentences[i]) # {}

\* a danda directly before and directly after a marker with dandas inside
C2_Witness ==
    /\ pc = "extracted"
    /\ \E k \in 1 .. Len(spans) :
          /\ spans[k].sutra_start > 0
          /\ At(mn, spans[k].sutra_start - 1) = "D"
          /\ spans[k].sutra_end < Len(mn)
          /\ At(mn, spans[k].sutra_end) = "D"
          /\ Count(MarkerText(mn, spans[k].sutra_start), "D") = 2
          /\ spans[k].sentence_start = spans[k].sutra_start
          /\ spans[k].sentence_end = spans[k].sutra_end + 1

(***************************************************************************)
(* C3  No span begins or ends strictly inside a marker occurrence.         *)
(***************************************************************************)
C3_NoBoundaryInsideMarker ==
    pc = "extracted" =>
        \A k \in 1 .. Len(spans) : \A p \in MarkerStarts(mn) :
            /\ ~(p < spans[k].sentence_start /\ spans[k].sentence_start < MatchAt(mn, p))
            /\ ~(p < spans[k].sentence_end /\ spans[k].sentence_end < MatchAt(mn, p))

(***************************************************************************)
(* C4  The returned spans are pairwise distinct as strings.                *)
(***************************************************************************)
C4_SpansDistinct ==
    pc = "extracted" =>
        \A i \in 1 .. Len(sentences) : \A j \in 1 .. Len(sentences) :
            i # j => sentences[i] # sentences[j]

\* two occurrences whose iterations produce the same span
C4_Witness ==
    /\ pc = "extracted"
    /\ \E i \in 1 .. Len(spans) : \E j \in 1 .. Len(spans) :
          i # j /\ SpanText(i) = SpanText(j)
    /\ Len(sentences) < Len(spans)

(***************************************************************************)
(* C5  The empty string and every marker-free text give the empty          *)
(* sequence.                                                               *)
(***************************************************************************)
C5_NoMarkerNoSpan ==
    (pc = "extracted" /\ MarkerStarts(mn) = {}) => sentences = <<>>

\* a marker-free text that holds a cut marker, dandas and a closing bracket
C5_Witness ==
    /\ pc = "extracted"
    /\ MarkerStarts(mn) = {}
    /\ Contains(mn, CutMarker)
    /\ Count(mn, ")") > 0
    /\ sentences = <<>>

\* phase 2 has run, on the spans of phase 1 or on a list of the caller's
Processed == pc \in {"processed", "processed_loaded"}

(***************************************************************************)
(* C6  Every record's 'sutra' is the three digit groups of a marker of its *)
(* span joined by dots; in a span with k >= 2 markers the i-th record      *)
(* cites the i-th marker; extract_sutra_reference gives the citation of    *)
(* the first marker.                                                       *)
(***************************************************************************)
C6_CitationMatchesMarker ==
    Processed =>
        \A i \in 1 .. Len(sentences) :
            LET s    == sentences[i]
                ps   == MarkerStarts(s)
                recs == processed_by[i]
            IN  /\ \A r \in 1 .. Len(recs) :
                      \E p \in ps : IsCitationOf(recs[r].sutra, MarkerText(s, p))
                /\ Cardinality(ps) >= 2 =>
                      \A r \in 1 .. Len(recs) :
                          /\ r <= Cardinality(ps)
                          /\ IsCitationOf(recs[r].sutra,
                                          MarkerText(s, KthSmallest(ps, r)))
                /\ ps # {} =>
                      /\ extract_sutra_reference(s) # None
                      /\ IsCitationOf(extract_sutra_reference(s)[1],
                                      MarkerText(s, SetMin(ps)))

\* a span returned by phase 1 with two markers of different citations
C6_Witness ==
    /\ pc = "processed"
    /\ \E i \in 1 .. Len(sentences) :
          /\ Cardinality(MarkerStarts(sentences[i])) = 2
          /\ Len(processed_by[i]) = 2
          /\ processed_by[i][1].sutra = <<"1", ".", "2", ".", "3">>
          /\ processed_by[i][2].sutra = <<"1", "0", ".", "5", ".", "6">>

(***************************************************************************)
(* C7  The cleaned text returned by clean_sentence, and the 'sentence' of  *)
(* every record, contains no citation marker.                              *)
(***************************************************************************)
C7_CleanedHasNoMarker ==
    /\ pc = "cleaned" => MarkerStarts(cleaned) = {}
    /\ (pc = "sentence_done" /\ result # None) =>
          MarkerStarts(result[1].sentence) = {}
    /\ Processed =>
          \A r \in 1 .. Len(processed) : MarkerStarts(processed[r].sentence) = {}

C9_FanOut ==
    Processed =>
        \A i \in 1 .. Len(sentences) :
            LET s    == sentences[i]
                ps   == MarkerStarts(s)
                recs == processed_by[i]
            IN  Cardinality(ps) >= 2 =>
                  /\ Len(recs) = Cardinality(ps)
                  /\ \A r \in 1 .. Len(recs) :
                        /\ IsCitationOf(recs[r].sutra,
                                        MarkerText(s, KthSmallest(ps, r)))
                        /\ recs[r].sentence = recs[1].sentence
                        /\ recs[r].sentence = CleanRest(WithoutMarkers(s))

\* two markers with text between them: two records sharing a non-empty sentence
C9_Witness ==
    /\ Processed
    /\ \E i \in 1 .. Len(sentences) :
          /\ Cardinality(MarkerStarts(sentences[i])) = 2
          /\ Len(processed_by[i]) = 2
          /\ processed_by[i][1].sutra # processed_by[i][2].sutra
          /\ processed_by[i][1].sentence # <<>>
          /\ processed_by[i][1].sentence = processed_by[i][2].sentence

(***************************************************************************)
(* C10  For a span without a citation marker process_sentence returns     *)
(* None, and process_sentences adds no record for it and goes on with the  *)
(* other spans of the list.                                                *)
(***************************************************************************)
C10_NoCitationSkipped ==
    /\ (pc = "sentence_done" /\ MarkerStarts(mn) = {}) => result = None
    /\ Processed =>
          /\ \A i \in 1 .. Len(sentences) :
                MarkerStarts(sentences[i]) = {} => processed_by[i] = <<>>
          /\ processed = Concat(processed_by)

\* a marker-free span first in the list, and a record of the span after it
C10_Witness ==
    /\ pc = "processed_loaded"
    /\ Len(sentences) = 2
    /\ MarkerStarts(sentences[1]) = {}
    /\ sentences[1] # <<>>
    /\ MarkerStarts(sentences[2]) # {}
    /\ Len(processed) >= 1

(***************************************************************************)
(* Two runs of extraction and normalization on the same commentary string, *)
(* with or without a run on another string between them                    *)
(***************************************************************************)
Output(ss, rs) == [sutra_sentences |-> ss, processed |-> rs]

\* extract_sentences_with_sutra(text, sutra_pattern), then
\* processor.process_sentences on what it returned
RunOn(text) ==
    /\ sentences' = ExtractCall(text, seen_before)
    /\ processed' = process_sentences(sentences')
    /\ seen_before' = sentences'

RunFirst ==
    /\ pc = "start"
    /\ RunOn(mn)
    /\ first_output' = Some(Output(sentences', processed'))
    /\ pc' = "ran_once"
    /\ UNCHANGED <<mn, spans, processed_by, cleaned, result>>
    /\ UNCHANGED beyondTwice

\* the entry of another verse goes through the same function and the same
\* processor object
RunOther ==
    /\ pc = "ran_once"
    /\ \E other \in {NoSutraSentence, SutraSentence} : RunOn(other)
    /\ pc' = "ran_other"
    /\ UNCHANGED <<mn, spans, processed_by, cleaned, result, first_output>>
    /\ UNCHANGED beyondTwice

RunAgain ==
    /\ pc \in {"ran_once", "ran_other"}
    /\ RunOn(mn)
    /\ pc' = IF pc = "ran_other" THEN "ran_twice_after_other" ELSE "ran_twice"
    /\ UNCHANGED <<mn, spans, processed_by, cleaned, result, first_output>>
    /\ UNCHANGED beyondTwice

TwiceNext ==
    \/ RunFirst
    \/ RunOther
    \/ RunAgain

TwiceSpec == Init /\ [][TwiceNext]_vars

\* C11: the second run of extract_sentences_with_sutra and process_sentences
\* on a commentary string returns what the first run on it returned, whether
\* or not another string went through the same function and processor between
\* the two runs
C11_SameOutputTwice ==
    pc \in {"ran_twice", "ran_twice_after_other"} =>
        first_output = Some(Output(sentences, processed))

\* the second run came after a run on another string that has a citation, and
\* both runs on mn returned spans and records
C11_Witness ==
    /\ pc = "ran_twice_after_other"
    /\ processed # <<>>
    /\ Len(sentences) >= 2
    /\ first_output = Some(Output(sentences, processed))
    /\ SutraSentence \notin SeqToSet(sentences)

\* C12: when the backward scan accepts no danda before the first marker
\* occurrence, its span starts at the first character of the text (after the
\* whitespace trim); when the forward scan accepts no danda after the last
\* marker occurrence, its span extends to the last character of the text
C12_DefaultBoundaries ==
    pc = "extracted" /\ spans # <<>> =>
        LET first == spans[1]
            last  == spans[Len(spans)]
        IN  /\ (~\E i \in 0 .. first.sutra_start - 1 : LeftDandaAccepted(mn, i))
                  => /\ first.sentence_start = 0
                     /\ SpanText(1) = Strip(Slice(mn, 0, first.sentence_end))
            /\ (~\E i \in last.sutra_end .. Len(mn) - 1 :
                        RightDandaAccepted(mn, last.sutra_end, i))
                  => /\ last.sentence_end = Len(mn)
                     /\ SpanText(Len(spans)) =
                            Strip(Slice(mn, last.sentence_start, Len(mn)))

\* text before and after the only marker, the text before it holding a danda
\* that the backward scan rejects: the span is the whole text
C12_Witness ==
    /\ pc = "extracted"
    /\ Len(spans) = 1
    /\ spans[1].sutra_start > 0
    /\ spans[1].sutra_end < Len(mn)
    /\ \E i \in 0 .. spans[1].sutra_start - 1 :
          IsDanda(At(mn, i)) /\ ~LeftDandaAccepted(mn, i)
    /\ spans[1].sentence_start = 0
    /\ spans[1].sentence_end = Len(mn)
    /\ sentences = <<mn>>

(***************************************************************************)
(* The two copies of the citation pattern, run over marker-like strings:   *)
(* with and without brackets, with each separator a danda, a pipe, a dot   *)
(* or missing, with digit groups of 0 .. MaxDigits digits or a letter      *)
(***************************************************************************)
MaxDigits == 2

GroupTexts == {[i \in 1 .. n |-> "7"] : n \in 0 .. MaxDigits} \cup {<<"x">>}
SeparatorTexts == {<<"D">>, <<"|">>, <<".">>, <<>>}

MarkerLike ==
    {pre \o open \o <<"P", "A", ".">> \o g1 \o s1 \o g2 \o s2 \o g3 \o close :
        pre \in {<<>>, <<"x">>}, open \in {<<"(">>, <<>>}, close \in {<<")">>, <<>>},
        g1 \in GroupTexts, g2 \in GroupTexts, g3 \in GroupTexts,
        s1 \in SeparatorTexts, s2 \in SeparatorTexts}

PatternInit ==
    /\ mn \in MarkerLike
    /\ CoreIdle
    /\ data = <<>>
    /\ PipelineIdle
    /\ NoEnrichment
    /\ NoAggregation
    /\ NoPada

\* the extractor: re.finditer(sutra_pattern, text) with its own pattern
ExtractorFinds ==
    /\ pc \in {"start", "processor_ran"}
    /\ found_by_extractor' = FindAll(ExtractorPattern, mn)
    /\ pc' = IF pc = "start" THEN "extractor_ran" ELSE "both_ran"
    /\ UNCHANGED <<mn, found_by_processor>>
    /\ UNCHANGED beyondPattern

\* the processor: re.finditer(self.sutra_pattern, sentence)
ProcessorFinds ==
    /\ pc \in {"start", "extractor_ran"}
    /\ found_by_processor' = StartEnds(FindIter(mn))
    /\ pc' = IF pc = "start" THEN "processor_ran" ELSE "both_ran"
    /\ UNCHANGED <<mn, found_by_extractor>>
    /\ UNCHANGED beyondPattern

PatternNext ==
    \/ ExtractorFinds
    \/ ProcessorFinds

PatternSpec == PatternInit /\ [][PatternNext]_vars

\* sub is a run of one or more digits
IsDigits(sub) == sub # <<>> /\ \A i \in 1 .. Len(sub) : sub[i] \in Digits

\* sub is '(' 'pa.' digits sep digits sep digits ')', each sep a danda or a pipe
IsMarkerForm(sub) ==
    /\ Len(sub) >= 10
    /\ SubSeq(sub, 1, 4) = <<"(", "P", "A", ".">>
    /\ sub[Len(sub)] = ")"
    /\ \E i, j \in 5 .. Len(sub) - 1 :
          /\ i < j
          /\ sub[i] \in {"D", "|"}
          /\ sub[j] \in {"D", "|"}
          /\ IsDigits(SubSeq(sub, 5, i - 1))
          /\ IsDigits(SubSeq(sub, i + 1, j - 1))
          /\ IsDigits(SubSeq(sub, j + 1, Len(sub) - 1))

\* the substrings of t of the marker form, as (start, end)
MarkerFormsIn(t) ==
    {<<a, b>> \in (0 .. Len(t)) \X (0 .. Len(t)) :
        a < b /\ IsMarkerForm(Slice(t, a, b))}

\* C13: the substrings the extractor's pattern matches and the substrings the
\* processor's pattern matches are the same, and they are exactly the
\* substrings '(' 'pa.' digits sep digits sep digits ')' with each sep a danda
\* or a pipe
C13_SamePatternSameForm ==
    pc = "both_ran" =>
        /\ found_by_extractor = found_by_processor
        /\ SeqToSet(found_by_extractor) = MarkerFormsIn(mn)

\* a marker with a danda and a pipe after a letter: both patterns match it
C13_Witness ==
    /\ pc = "both_ran"
    /\ mn = <<"x", "(", "P", "A", ".", "7", "7", "D", "7", "|", "7", ")">>
    /\ found_by_extractor = <<<<1, 12>>>>
    /\ found_by_processor = <<<<1, 12>>>>

(***************************************************************************)
(* clean_sentence and process_sentence on sentences with names in          *)
(* backticks: built from at most MaxQuotePieces pieces, among them the     *)
(* backtick, one space and a run of two spaces                             *)
(***************************************************************************)
MaxQuotePieces == 4

QuotePieces ==
    {Marker1, CutTail, <<"q">>, <<"x">>, <<" ">>, <<" ", " ">>, <<"D">>,
     <<"q", "x", "q">>}

QuotedTexts ==
    {Join(ps) : ps \in UNION {[1 .. n -> QuotePieces] : n \in 0 .. MaxQuotePieces}}

QuoteInit ==
    /\ mn \in QuotedTexts
    /\ CoreIdle
    /\ data = <<>>
    /\ PipelineIdle
    /\ NoEnrichment
    /\ NoAggregation
    /\ NoPada

QuoteNext ==
    \/ CleanSentence
    \/ ProcessSentence

QuoteSpec == QuoteInit /\ [][QuoteNext]_vars

\* the backtick-delimited substrings of t, as (position of the opening
\* backtick, position of the closing backtick), no backtick between the two
QuotedIn(t) ==
    {<<a, b>> \in (0 .. Len(t) - 1) \X (0 .. Len(t) - 1) :
        /\ a < b
        /\ At(t, a) = "q"
        /\ At(t, b) = "q"
        /\ \A k \in a + 1 .. b - 1 : At(t, k) # "q"}

\* those that contain no citation marker, as text with the backticks
MarkerFreeQuotes(t) ==
    {Slice(t, ab[1], ab[2] + 1) : ab \in
        {cd \in QuotedIn(t) : MarkerStarts(Slice(t, cd[1], cd[2] + 1)) = {}}}

\* C14 as stated: each backtick-delimited substring without a citation marker
\* appears character for character, backticks included, in the text returned
\* by clean_sentence
C14_QuotedVerbatim ==
    pc = "cleaned" =>
        \A quoted \in MarkerFreeQuotes(mn) : Contains(cleaned, quoted)

\* C14, amended: each backtick-delimited substring without a citation marker
\* appears in the text returned by clean_sentence with its backticks and with
\* every run of whitespace inside it replaced by one space, so character for
\* character when its only whitespace is single spaces
C14_QuotedUpToWhitespace ==
    pc = "cleaned" =>
        \A quoted \in MarkerFreeQuotes(mn) :
            /\ Contains(cleaned, CollapseSpaces(quoted, 0))
            /\ CollapseSpaces(quoted, 0) = quoted => Contains(cleaned, quoted)

\* a name in backticks with two spaces inside it, before a marker: the cleaned
\* text has the name with one space
C14_Witness ==
    /\ pc = "cleaned"
    /\ mn = <<"q", " ", " ", "q">> \o Marker1
    /\ cleaned = <<"q", " ", "q">>

(***************************************************************************)
(* The two phases over a corpus file: extract_sutra_prayogas, then         *)
(* SutraSentenceProcessor.enhance_data.  A dictionary is a function from   *)
(* its keys; a dictionary object is a position of heap.                    *)
(***************************************************************************)
MaxEntries == 2

\* dict.get(k, default)
Get(d, k, default) == IF k \in DOMAIN d THEN d[k] ELSE default

\* the value None, as dict.get(k) gives for a missing key
PyNone == <<"None">>

Restrict(d, keys) == [k \in keys |-> d[k]]

\* a commentary with two markers in one sentence
TwoSutraText == <<"x", " ">> \o Marker1 \o <<",", " ", "x", " ">> \o Marker2 \o <<"D">>

\* corpus entries {c, n, v, mn}, complete, without 'mn' and without 'v'
CorpusEntries ==
    {Restrict(e, keys) :
        e \in [c : {<<"1">>}, n : {<<"1">>, <<"2">>}, v : {<<"a">>},
               mn : {<<>>, NoSutraSentence, SutraSentence, TwoSutraText}],
        keys \in {{"c", "n", "v", "mn"}, {"c", "n", "v"}, {"c", "n", "mn"}}}

Corpora == UNION {[1 .. n -> CorpusEntries] : n \in 0 .. MaxEntries}

\* faulty variant: every entry with a non-empty commentary is taken
Selected_NonEmpty(commentary) == commentary # <<>>

\* line 173: re.search(sutra_pattern, mn)
Selected(commentary) == Search(commentary) # None

\* lines 175-186: the result dictionary of an entry
ResultOf(entry, commentary) ==
    [loc |-> Get(entry, "c", <<>>) \o <<".">> \o Get(entry, "n", <<>>),
     v |-> Get(entry, "v", PyNone),
     sutra_sentences |-> extract_sentences_with_sutra(commentary)]

\* lines 170-188: what one entry adds to results
ResultsOfEntry(entry, commentary) ==
    IF Selected(commentary) THEN <<ResultOf(entry, commentary)>> ELSE <<>>

\* lines 162-190, for the entries of the loaded file's data
RECURSIVE extract_sutra_prayogas(_)
extract_sutra_prayogas(entries) ==
    IF entries = <<>> THEN <<>>
    ELSE ResultsOfEntry(Head(entries), Get(Head(entries), "mn", <<>>))
           \o extract_sutra_prayogas(Tail(entries))

\* an entry as the processor's tests build it: c, n, v and the commentary as
\* its one raw sentence; an empty list for an empty commentary, no
\* 'sutra_sentences' key for an entry without 'mn'
TestSentences(commentary) ==
    IF commentary = <<>> THEN <<>> ELSE <<commentary>>
AsTestEntry(entry) ==
    [k \in (DOMAIN entry \ {"mn"})
            \cup (IF "mn" \in DOMAIN entry THEN {"sutra_sentences"} ELSE {}) |->
        IF k = "sutra_sentences" THEN TestSentences(entry.mn) ELSE entry[k]]

\* faulty variant: enhanced = entry, the same dictionary object
Copy_Alias(h, ref) == [heap |-> h, ref |-> ref]

\* line 149: entry.copy(), a new dictionary with the same items
Copy(h, ref) == [heap |-> Append(h, h[ref]), ref |-> Len(h) + 1]

\* d[key] = value on the dictionary object ref
SetItem(h, ref, key, value) ==
    [h EXCEPT ![ref] =
        [k \in DOMAIN h[ref] \cup {key} |-> IF k = key THEN value ELSE h[ref][k]]]

\* lines 152-155: the new value of 'sutra_sentences'
NewSutraSentences(entry) ==
    IF "sutra_sentences" \in DOMAIN entry /\ entry.sutra_sentences # <<>>
    THEN process_sentences(entry.sutra_sentences)
    ELSE <<>>

\* lines 151-157 on the copy
EnhanceCopy(copied, entry) ==
    [heap |-> SetItem(copied.heap, copied.ref, "sutra_sentences",
                      NewSutraSentences(entry)),
     ref |-> copied.ref]

\* lines 139-157: the heap afterwards and the dictionary returned
enhance_entry(h, ref) == EnhanceCopy(Copy(h, ref), h[ref])

\* line 169: the list comprehension over data
RECURSIVE enhance_data(_, _, _)
EnhanceRest(done, refs, out) ==
    enhance_data(done.heap, Tail(refs), Append(out, done.ref))
enhance_data(h, refs, out) ==
    IF refs = <<>> THEN [heap |-> h, refs |-> out]
    ELSE EnhanceRest(enhance_entry(h, Head(refs)), refs, out)

Refs(h) == [i \in 1 .. Len(h) |-> i]

PipelineInit ==
    /\ mn = <<>>
    /\ CoreIdle
    /\ data \in Corpora
    /\ PipelineIdle
    /\ NoEnrichment
    /\ NoAggregation
    /\ NoPada

\* main, phase 1: results = extract_sutra_prayogas(input_file)
ExtractSutraPrayogas ==
    /\ pc = "start"
    /\ heap' = extract_sutra_prayogas(data)
    /\ results' = Refs(heap')
    /\ results_before' = heap'
    /\ pc' = "extracted"
    /\ UNCHANGED <<data, enhanced_results>>
    /\ UNCHANGED beyondPipeline

\* a caller builds the list of entries itself
LoadEntries ==
    /\ pc = "start"
    /\ heap' = [i \in 1 .. Len(data) |-> AsTestEntry(data[i])]
    /\ results' = Refs(heap')
    /\ results_before' = heap'
    /\ pc' = "loaded"
    /\ UNCHANGED <<data, enhanced_results>>
    /\ UNCHANGED beyondPipeline

\* main, phase 2: enhanced_results = processor.enhance_data(results)
EnhanceData ==
    /\ pc \in {"extracted", "loaded"}
    /\ heap' = enhance_data(heap, results, <<>>).heap
    /\ enhanced_results' = enhance_data(heap, results, <<>>).refs
    /\ pc' = IF pc = "extracted" THEN "enhanced" ELSE "enhanced_loaded"
    /\ UNCHANGED <<data, results, results_before>>
    /\ UNCHANGED beyondPipeline

PipelineNext ==
    \/ ExtractSutraPrayogas
    \/ LoadEntries
    \/ EnhanceData

PipelineSpec == PipelineInit /\ [][PipelineNext]_vars

\* the positions of the corpus entries whose 'mn' contains a citation marker
WithMarker(entries) ==
    {i \in 1 .. Len(entries) :
        "mn" \in DOMAIN entries[i] /\ MarkerStarts(entries[i].mn) # {}}

\* C15: extract_sutra_prayogas returns one result per corpus entry whose 'mn'
\* contains a citation marker, in corpus order, with loc = c + '.' + n and v
\* copied from the entry; an entry whose 'mn' is missing, empty or marker-free
\* yields no result
C15_OneResultPerCitingEntry ==
    pc = "extracted" =>
        /\ Len(results) = Cardinality(WithMarker(data))
        /\ \A k \in 1 .. Len(results) :
              LET entry == data[KthSmallest(WithMarker(data), k)]
                  res   == heap[results[k]]
              IN  /\ res.loc = entry.c \o <<".">> \o entry.n
                  /\ "v" \in DOMAIN entry => res.v = entry.v
                  /\ res.sutra_sentences = extract_sentences_with_sutra(entry.mn)

\* an entry without 'mn' or without marker before an entry with markers: the
\* one result is that of the second entry
C15_Witness ==
    /\ pc = "extracted"
    /\ Len(data) = 2
    /\ WithMarker(data) = {2}
    /\ "mn" \notin DOMAIN data[1]
    /\ Len(results) = 1
    /\ heap[results[1]].loc = <<"1", ".", "2">>
    /\ Len(heap[results[1]].sutra_sentences) = 2

\* the input entry has sentences to process
HasSentences(entry) ==
    "sutra_sentences" \in DOMAIN entry /\ entry.sutra_sentences # <<>>

\* C16: enhance_data returns as many entries as it was given, in the same
\* order; each returned entry equals its input entry in every field other than
\* 'sutra_sentences', which is the empty list when the input has no sutra
\* sentences; and each input entry is afterwards what it was before
C16_EnhanceKeepsTheRest ==
    pc \in {"enhanced", "enhanced_loaded"} =>
        /\ Len(enhanced_results) = Len(results)
        /\ \A i \in 1 .. Len(results) :
              LET before   == results_before[i]
                  entry    == heap[results[i]]
                  enhanced == heap[enhanced_results[i]]
              IN  /\ entry = before
                  /\ DOMAIN enhanced = DOMAIN before \cup {"sutra_sentences"}
                  /\ \A k \in DOMAIN before \ {"sutra_sentences"} :
                        enhanced[k] = before[k]
                  /\ ~HasSentences(before) => enhanced.sutra_sentences = <<>>
                  /\ HasSentences(before) =>
                        enhanced.sutra_sentences
                            = process_sentences(before.sutra_sentences)

\* two entries, the first with two citations in its sentence and the second
\* without a 'sutra_sentences' key
C16_Witness ==
    /\ pc = "enhanced_loaded"
    /\ Len(results) = 2
    /\ Len(enhanced_results) = 2
    /\ HasSentences(heap[results[1]])
    /\ Len(heap[enhanced_results[1]].sutra_sentences) = 2
    /\ "sutra_sentences" \notin DOMAIN heap[results[2]]
    /\ heap[enhanced_results[2]].sutra_sentences = <<>>
    /\ heap[enhanced_results[2]].n = <<"2">>

(***************************************************************************)
(* The enrichment passes over an extract file: enhance_with_gemini_vertex  *)
(* ("vertex": main, enhance_file, enhance_verse, find_word_and_description *)
(* with its retries) and EnhanceJsonWithWordsAndDescriptions ("gemini").   *)
(* A record is its word and description; a missing 'description' key reads *)
(* as empty, as sutra_entry.get('description') is tested for truth only.   *)
(***************************************************************************)
MaxVerses == 2

EmptyPair == <<"", "">>

EmptyRecord  == [word |-> "", description |-> ""]
FilledRecord == [word |-> "w0", description |-> "d0"]
WordOnlyRecord == [word |-> "w0", description |-> ""]

SentenceLists ==
    {<<>>, <<EmptyRecord>>, <<FilledRecord>>, <<WordOnlyRecord>>,
     <<EmptyRecord, FilledRecord>>, <<FilledRecord, EmptyRecord>>}

VerseLists ==
    UNION {[1 .. n -> [commentary : BOOLEAN, sutra_sentences : SentenceLists]] :
              n \in 0 .. MaxVerses}

\* what a call of model.generate_content comes to: a JSON object with word and
\* description, one with the word alone, a text without JSON, an exception
\* whose text has '429' or 'Quota exceeded', any other exception
Outcomes == {"full", "word_only", "no_json", "rate_limit", "error"}

\* faulty variant: the longest wait first
RetryDelays_Reversed == <<240, 120, 60, 30>>

\* line 129: retry_delays
RetryDelays == <<30, 60, 120, 240>>

\* faulty variant: every exception is taken for a rate limit
IsRateLimit_AnyError(outcome) == outcome \in {"rate_limit", "error"}

\* line 128: "429" in str(e) or "Quota exceeded" in str(e)
IsRateLimit(outcome) == outcome = "rate_limit"

\* lines 111-124 and 157-158: what the first call makes the function return
FirstReturn(outcome) ==
    CASE outcome = "full" -> <<"w1", "d1">>
      [] outcome = "word_only" -> <<"w1", "">>
      [] OTHER -> EmptyPair

\* line 175: sutra_entry.get('word') and sutra_entry.get('description')
IsFilled(r) == r.word # "" /\ r.description # ""

\* lines 174-177, with skip_filled=True; the other script has no such test
Skips(r) == script = "vertex" /\ IsFilled(r)

\* lines 185-186: sutra_entry['word'] = word; sutra_entry['description'] = ...
SetRecord(vs, v, s, pair) ==
    [vs EXCEPT ![v].sutra_sentences[s] = [word |-> pair[1], description |-> pair[2]]]

\* the records of the file, as (verse, record) positions
AllRecords(vs) ==
    UNION {{<<v, s>> : s \in 1 .. Len(vs[v].sutra_sentences)} : v \in 1 .. Len(vs)}

\* lines 315-319: the records not filled
EmptySutras(vs) ==
    {r \in AllRecords(vs) : ~IsFilled(vs[r[1]].sutra_sentences[r[2]])}

EnrichInit ==
    /\ mn = <<>>
    /\ CoreIdle
    /\ data = <<>>
    /\ PipelineIdle
    /\ script \in {"vertex", "gemini"}
    /\ verses \in VerseLists
    /\ EnrichIdle
    /\ NoAggregation
    /\ NoPada

\* main calls enhance_file, which loads the file and counts; the percentage
\* of line 225 divides by total_sutras
StartPass ==
    /\ pc = "start"
    /\ pass_start' = verses
    /\ called' = <<>>
    /\ outcomes' = <<>>
    /\ sleeps' = <<>>
    /\ IF script = "vertex" /\ AllRecords(verses) = {}
       THEN pc' = "raised" /\ vi' = 0 /\ si' = 0
       ELSE pc' = "record" /\ vi' = 1 /\ si' = 1
    /\ UNCHANGED <<script, verses, attempt, returned>>
    /\ UNCHANGED beyondEnrich

\* lines 166-168: a verse without commentary is returned as it is
SkipVerse ==
    /\ pc = "record"
    /\ vi <= Len(verses)
    /\ ~verses[vi].commentary
    /\ vi' = vi + 1
    /\ si' = 1
    /\ UNCHANGED <<pc, script, verses, attempt, outcomes, sleeps, called, returned,
                   pass_start>>
    /\ UNCHANGED beyondEnrich

\* line 170: the loop over the verse's sutra_sentences is through
EndVerse ==
    /\ pc = "record"
    /\ vi <= Len(verses)
    /\ verses[vi].commentary
    /\ si > Len(verses[vi].sutra_sentences)
    /\ vi' = vi + 1
    /\ si' = 1
    /\ UNCHANGED <<pc, script, verses, attempt, outcomes, sleeps, called, returned,
                   pass_start>>
    /\ UNCHANGED beyondEnrich

HasRecord ==
    /\ vi <= Len(verses)
    /\ verses[vi].commentary
    /\ si <= Len(verses[vi].sutra_sentences)

\* lines 174-177: continue
SkipFilled ==
    /\ pc = "record"
    /\ HasRecord
    /\ Skips(verses[vi].sutra_sentences[si])
    /\ si' = si + 1
    /\ UNCHANGED <<pc, script, verses, vi, attempt, outcomes, sleeps, called,
                   returned, pass_start>>
    /\ UNCHANGED beyondEnrich

\* find_word_and_description returns pair: lines 181-186 store it, and the
\* loop goes to the next record
ReturnPair(pair) ==
    /\ returned' = pair
    /\ verses' = SetRecord(verses, vi, si, pair)
    /\ si' = si + 1
    /\ attempt' = 0
    /\ pc' = "record"
    /\ UNCHANGED vi

\* find_word_and_description, lines 106-128 and 157-158: the wait, the first
\* call, and what follows from its outcome
FirstCall ==
    /\ pc = "record"
    /\ HasRecord
    /\ ~Skips(verses[vi].sutra_sentences[si])
    /\ called' = Append(called, <<vi, si>>)
    /\ sleeps' = <<>>
    /\ \E outcome \in Outcomes :
          /\ outcomes' = <<outcome>>
          /\ IF script = "vertex" /\ IsRateLimit(outcome)
             THEN /\ pc' = "retrying"
                  /\ attempt' = 1
                  /\ UNCHANGED <<verses, vi, si, returned>>
             ELSE ReturnPair(FirstReturn(outcome))
    /\ UNCHANGED <<script, pass_start>>
    /\ UNCHANGED beyondEnrich

\* lines 131-155: one turn of the retry loop
Retry ==
    /\ pc = "retrying"
    /\ sleeps' = Append(sleeps, RetryDelays[attempt])
    /\ \E outcome \in Outcomes :
          /\ outcomes' = Append(outcomes, outcome)
          /\ IF outcome = "full" THEN ReturnPair(<<"w1", "d1">>)
             ELSE IF attempt < Len(RetryDelays)
                  THEN /\ attempt' = attempt + 1
                       /\ UNCHANGED <<pc, verses, vi, si, returned>>
                  ELSE ReturnPair(EmptyPair)
    /\ UNCHANGED <<script, called, pass_start>>
    /\ UNCHANGED beyondEnrich

\* lines 229-248: the loop over the verses is through, the file is written
EndPass ==
    /\ pc = "record"
    /\ vi > Len(verses)
    /\ pc' = "pass_done"
    /\ UNCHANGED <<script, verses, vi, si, attempt, outcomes, sleeps, called,
                   returned, pass_start>>
    /\ UNCHANGED beyondEnrich

\* main, lines 311-333: break when no record is empty, else wait and go round
\* again; the other script's main ends after its one pass
CheckFilled ==
    /\ pc = "pass_done"
    /\ pc' = IF script = "vertex" /\ EmptySutras(verses) # {}
             THEN "start" ELSE "finished"
    /\ UNCHANGED <<script, verses, vi, si, attempt, outcomes, sleeps, called,
                   returned, pass_start>>
    /\ UNCHANGED beyondEnrich

\* the script is run again on the file it wrote
RunScriptAgain ==
    /\ pc = "finished"
    /\ pc' = "start"
    /\ UNCHANGED <<script, verses, vi, si, attempt, outcomes, sleeps, called,
                   returned, pass_start>>
    /\ UNCHANGED beyondEnrich

EnrichNext ==
    \/ StartPass
    \/ SkipVerse
    \/ EndVerse
    \/ SkipFilled
    \/ FirstCall
    \/ Retry
    \/ EndPass
    \/ CheckFilled
    \/ RunScriptAgain

EnrichSpec == EnrichInit /\ [][EnrichNext]_vars

\* every step of a script is taken in the end: the process runs on
EnrichFairSpec == EnrichSpec /\ WF_vars(EnrichNext)

\* the record a position names
RecordAt(vs, r) == vs[r[1]].sutra_sentences[r[2]]

\* the positions of called, as a set
CalledSet == {called[k] : k \in 1 .. Len(called)}

\* C17: a record whose word and description were both filled when a pass
\* began is skipped by the pass: the service is not called for it and its
\* word and description stay as they were
C17_FilledIsSkipped ==
    pass_start # <<>> =>
        \A r \in AllRecords(pass_start) :
            IsFilled(RecordAt(pass_start, r)) =>
                /\ r \notin CalledSet
                /\ RecordAt(verses, r) = RecordAt(pass_start, r)

\* no call for the record in hand came to a word and description
AllFailed ==
    /\ outcomes # <<>>
    /\ outcomes[1] \notin {"full", "word_only"}
    /\ \A k \in 2 .. Len(outcomes) : outcomes[k] # "full"

\* the pass is beyond position r
Beyond(r) == vi > r[1] \/ (vi = r[1] /\ si > r[2])

\* C18: a record of the vertex script gets at most five calls, the waits
\* between them are 30, 60, 120 and 240 seconds in this order, and when all
\* the calls fail the record gets the empty pair and the pass goes on to the
\* records after it without raising
C18_BoundedRetries ==
    script = "vertex" =>
        /\ Len(outcomes) <= 5
        /\ Len(sleeps) <= 4
        /\ sleeps = SubSeq(<<30, 60, 120, 240>>, 1, Len(sleeps))
        /\ outcomes # <<>> => Len(sleeps) = Len(outcomes) - 1
        /\ called # <<>> => pc # "raised"
        /\ (pc # "retrying" /\ called # <<>>) => Beyond(called[Len(called)])
        /\ (pc # "retrying" /\ AllFailed) =>
               /\ returned = EmptyPair
               /\ RecordAt(verses, called[Len(called)]) = EmptyRecord

C18_Witness ==
    /\ script = "vertex"
    /\ pc = "record"
    /\ Len(outcomes) = 5
    /\ AllFailed
    /\ sleeps = <<30, 60, 120, 240>>
    /\ returned = EmptyPair
    /\ HasRecord
    /\ called[Len(called)] = <<vi, si - 1>>

\* the service raised at the first call for the record in hand
FirstCallRaised == outcomes # <<>> /\ outcomes[1] \in {"rate_limit", "error"}

C20_RunTerminates == (script = "vertex") => <>(pc \in {"finished", "raised"})

\* C25: the text returned by clean_sentence does not begin with a danda,
\* whatever the input
C25_NoLeadingDanda ==
    pc = "cleaned" => ~(cleaned # <<>> /\ IsDanda(Head(cleaned)))

\* t begins with digits that a closing bracket follows
LeadingNumber(t) ==
    \E n \in 1 .. Len(t) - 1 :
        /\ \A k \in 1 .. n : IsDigit(t[k])
        /\ t[n + 1] = ")"

\* C26: the text returned by clean_sentence does not begin with digits
\* followed by a closing bracket, whatever the input
C26_NoLeadingNumber == pc = "cleaned" => ~LeadingNumber(cleaned)

\* how many records of processed have the citation c
RecordsCiting(c) ==
    Cardinality({r \in 1 .. Len(processed) : processed[r].sutra = c})

\* how many marker occurrences of mn have the citation c
MarkersCiting(c) ==
    Cardinality({p \in MarkerStarts(mn) : IsCitationOf(c, MarkerText(mn, p))})

\* C28: after the two phases the citations of the records are, with their
\* multiplicities, the citations of the marker occurrences of the commentary:
\* every occurrence has a record, and no citation has more records than
\* occurrences
C28_RecordsMatchMarkers ==
    pc = "processed" =>
        /\ \A p \in MarkerStarts(mn) :
              \E r \in 1 .. Len(processed) :
                  IsCitationOf(processed[r].sutra, MarkerText(mn, p))
        /\ \A r \in 1 .. Len(processed) :
              RecordsCiting(processed[r].sutra) = MarkersCiting(processed[r].sutra)

\* C29: a pass of the vertex script leaves no record less filled than it
\* was when the pass began: a word that was not empty is not empty, and a
\* description that was not empty is not empty
C29_NeverLessFilled ==
    (script = "vertex" /\ pass_start # <<>>) =>
        \A r \in AllRecords(pass_start) :
            /\ RecordAt(pass_start, r).word # "" => RecordAt(verses, r).word # ""
            /\ RecordAt(pass_start, r).description # "" =>
                   RecordAt(verses, r).description # ""

(***************************************************************************)
(* Commentaries with several markers and commas between them: the comma    *)
(* rules of extract_sentences_with_sutra                                   *)
(***************************************************************************)
MaxCommaPieces == 4

CommaPieces == {Marker1, Marker2, <<",">>, <<"x">>, <<" ">>, <<"D">>}

CommaTexts ==
    {Join(ps) : ps \in UNION {[1 .. n -> CommaPieces] : n \in 0 .. MaxCommaPieces}}

CommaInit ==
    /\ mn \in CommaTexts
    /\ CoreIdle
    /\ data = <<>>
    /\ PipelineIdle
    /\ NoEnrichment
    /\ NoAggregation
    /\ NoPada

CommaNext == ExtractSentences \/ ProcessSentences

CommaSpec == CommaInit /\ [][CommaNext]_vars

\* the marker occurrences of mn that lie within the PrevSutraWindow
\* characters before the occurrence of iteration k, by their starts
EarlierMarkers(k) ==
    {p \in MarkerStarts(mn) :
        /\ p >= Max2(0, spans[k].sutra_start - PrevSutraWindow)
        /\ MatchAt(mn, p) <= spans[k].sutra_start}

\* the commas from position e on that have text other than whitespace
\* between them and the occurrence of iteration k
CommasBefore(e, k) ==
    {i \in e .. spans[k].sutra_start - 1 :
        /\ At(mn, i) = ","
        /\ Strip(Slice(mn, i + 1, spans[k].sutra_start)) # <<>>}

\* C23 as stated: whichever earlier marker of the window a comma follows,
\* the span starts right after the first such comma
C23_StartAfterComma ==
    pc = "extracted" =>
        \A k \in 1 .. Len(spans) : \A p \in EarlierMarkers(k) :
            CommasBefore(MatchAt(mn, p), k) # {} =>
                spans[k].sentence_start = SetMin(CommasBefore(MatchAt(mn, p), k)) + 1

\* C23: when a comma with text other than whitespace after it lies between
\* the nearest earlier marker of the window and the occurrence, the span
\* starts right after the first such comma, whatever the backward scan for
\* a danda would find; a comma before the nearest earlier marker does not
\* count
C23_StartAfterCommaOfNearest ==
    pc = "extracted" =>
        \A k \in 1 .. Len(spans) :
            EarlierMarkers(k) # {} =>
                LET e == MatchAt(mn, SetMax(EarlierMarkers(k)))
                IN  CommasBefore(e, k) # {} =>
                        spans[k].sentence_start = SetMin(CommasBefore(e, k)) + 1

\* a comma after the nearest earlier marker and then a danda before the
\* occurrence: the span starts after the comma, not after the danda
C23_Witness ==
    /\ pc = "extracted"
    /\ \E k \in 1 .. Len(spans) :
          /\ EarlierMarkers(k) # {}
          /\ CommasBefore(MatchAt(mn, SetMax(EarlierMarkers(k))), k) # {}
          /\ spans[k].sentence_start =
                 SetMin(CommasBefore(MatchAt(mn, SetMax(EarlierMarkers(k))), k)) + 1
          /\ DandaStart(mn, spans[k].sutra_start) > spans[k].sentence_start

\* the marker occurrences of mn that lie between the end of the marker of
\* iteration k and its tentative right boundary, by their starts
LaterMarkers(k) ==
    {p \in MarkerStarts(mn) :
        /\ p >= spans[k].sutra_end
        /\ MatchAt(mn, p) <= TentativeEnd(mn, spans[k].sutra_end)}

\* the commas between the marker of iteration k and position p
CommasUpTo(k, p) == {i \in spans[k].sutra_end .. p - 1 : At(mn, i) = ","}

MaxRecords == 3

\* the sutra_sentences records of the extract files
Record1 == [sutra |-> <<"1", ".", "1", "0", ".", "1">>, word |-> "w1",
            sentence |-> <<"s", "1">>, description |-> <<>>, pada |-> ""]
Record2 == [sutra |-> <<"1", ".", "2", ".", "1">>, word |-> "w2",
            sentence |-> <<"s", "2">>, description |-> <<>>, pada |-> "p2"]
Record3 == [sutra |-> <<"1", ".", "2", ".", "1">>, word |-> "w3",
            sentence |-> <<"s", "3">>,
            description |-> <<"x", " ", "D", " ">> \o Marker1, pada |-> ""]
Record4 == [sutra |-> <<"1", ".", "0", "2", ".", "1">>, word |-> "w4",
            sentence |-> <<"s", "4">>, description |-> <<"x">>, pada |-> "p4"]
Record5 == [sutra |-> <<"x">>, word |-> "w5",
            sentence |-> <<"s", "5">>, description |-> <<>>, pada |-> ""]
Record6 == [sutra |-> <<>>, word |-> "w6",
            sentence |-> <<"s", "6">>, description |-> <<" ">>, pada |-> ""]
RecordKinds == {Record1, Record2, Record3, Record4, Record5, Record6}

\* two files: the first with two verses, the second with one
FileHeads ==
    << [text |-> "t1", title |-> "T1", base_link |-> "b/", locs |-> <<"1", "2">>],
       [text |-> "t2", title |-> "T2", base_link |-> "b/", locs |-> <<"1">>] >>

\* the verses of the files, numbered through
SlotOf(f, v) == IF f = 1 THEN v ELSE Len(FileHeads[1].locs) + v
Slots == 1 .. SlotOf(Len(FileHeads), Len(FileHeads[Len(FileHeads)].locs))

\* up to MaxRecords records, each put into a verse, verse after verse
Placements ==
    {pl \in UNION {[1 .. n -> [slot : Slots, rec : RecordKinds]] : n \in 0 .. MaxRecords} :
        \A i \in 1 .. Len(pl) - 1 : pl[i].slot <= pl[i + 1].slot}

RecordsAt(pl, n) ==
    LET here == SelectSeq(pl, LAMBDA e : e.slot = n)
    IN  [i \in 1 .. Len(here) |-> here[i].rec]

AllDataOf(pl) ==
    [f \in 1 .. Len(FileHeads) |->
        [text |-> FileHeads[f].text, title |-> FileHeads[f].title,
         base_link |-> FileHeads[f].base_link,
         data |-> [v \in 1 .. Len(FileHeads[f].locs) |->
                     [loc |-> FileHeads[f].locs[v],
                      sutra_sentences |-> RecordsAt(pl, SlotOf(f, v))]]]]

\* re.sub(r'\s+([DW,])', r'\1', t)
RECURSIVE RemoveSpaceBeforePunct(_, _)
RemoveSpaceBeforePunct(t, p) ==
    IF p >= Len(t) THEN <<>>
    ELSE IF /\ IsSpace(At(t, p))
            /\ RunEnd(t, p, WhiteSpace) < Len(t)
            /\ At(t, RunEnd(t, p, WhiteSpace)) \in Dandas \cup {","}
         THEN RemoveSpaceBeforePunct(t, RunEnd(t, p, WhiteSpace))
         ELSE <<At(t, p)>> \o RemoveSpaceBeforePunct(t, p + 1)

\* lines 34-52
clean_ai_ref_description(description) ==
    IF description = <<>> THEN description
    ELSE RemoveSpaceBeforePunct(
             Strip(CollapseSpaces(RemoveSutras(description, 0), 0)), 0)

\* the three nested loops of lines 64-70 and of lines 99-109: the records
\* with their file and verse, in the order the loops reach them
RECURSIVE LoopItems(_, _, _, _)
LoopItems(files, f, v, i) ==
    IF f > Len(files) THEN <<>>
    ELSE IF v > Len(files[f].data) THEN LoopItems(files, f + 1, 1, 1)
    ELSE IF i > Len(files[f].data[v].sutra_sentences) THEN LoopItems(files, f, v + 1, 1)
    ELSE <<[file_data |-> files[f], verse |-> files[f].data[v],
            sutra_sentence |-> files[f].data[v].sutra_sentences[i]]>>
         \o LoopItems(files, f, v, i + 1)

\* d[key] = value
Put(d, key, value) ==
    [k \in DOMAIN d \cup {key} |-> IF k = key THEN value ELSE d[k]]

\* faulty variant: the first description of a key is kept
LookupStep_KeepFirst(lookup, it) ==
    LET key == <<it.file_data.text, it.verse.loc, it.sutra_sentence.sutra>>
    IN  IF it.sutra_sentence.description # <<>> /\ key \notin DOMAIN lookup
        THEN Put(lookup, key,
                 <<clean_ai_ref_description(it.sutra_sentence.description),
                   it.sutra_sentence.pada>>)
        ELSE lookup

\* lines 71-80: the body of the innermost loop
LookupStep(lookup, it) ==
    IF it.sutra_sentence.description # <<>>
    THEN Put(lookup, <<it.file_data.text, it.verse.loc, it.sutra_sentence.sutra>>,
             <<clean_ai_ref_description(it.sutra_sentence.description),
               it.sutra_sentence.pada>>)
    ELSE lookup

RECURSIVE LookupLoop(_, _, _)
LookupLoop(lookup, items, n) ==
    IF n > Len(items) THEN lookup
    ELSE LookupLoop(LookupStep(lookup, items[n]), items, n + 1)

build_ai_ref_lookup(files) == LookupLoop(<<>>, LoopItems(files, 1, 1, 1), 1)

\* lines 110-134: the metadata object of a record
Metadata(it, enhanced_lookup) ==
    LET lookup_key == <<it.file_data.text, it.verse.loc, it.sutra_sentence.sutra>>
        found == lookup_key \in DOMAIN enhanced_lookup
    IN  [word |-> it.sutra_sentence.word,
         text |-> it.file_data.title,
         loc |-> it.verse.loc,
         url |-> <<it.file_data.base_link, it.file_data.text, "/", it.verse.loc>>,
         pada |-> IF found /\ enhanced_lookup[lookup_key][2] # ""
                  THEN enhanced_lookup[lookup_key][2]
                  ELSE it.sutra_sentence.pada,
         AI_ref |-> IF found THEN enhanced_lookup[lookup_key][1]
                    ELSE it.sutra_sentence.sentence]

\* the position of key in the dict d, or 0
KeyIndex(d, key) ==
    IF \E n \in 1 .. Len(d) : d[n].key = key
    THEN CHOOSE n \in 1 .. Len(d) : d[n].key = key
    ELSE 0

\* faulty variant: the list of a key holds its last record only
AppendTo_Overwrite(d, key, metadata) ==
    IF KeyIndex(d, key) = 0 THEN Append(d, [key |-> key, list |-> <<metadata>>])
    ELSE [d EXCEPT ![KeyIndex(d, key)].list = <<metadata>>]

\* line 136: sutra_dict[sutra_number].append(metadata), on a defaultdict(list)
AppendTo(d, key, metadata) ==
    IF KeyIndex(d, key) = 0 THEN Append(d, [key |-> key, list |-> <<metadata>>])
    ELSE [d EXCEPT ![KeyIndex(d, key)].list = Append(@, metadata)]

RECURSIVE AggregateLoop(_, _, _, _)
AggregateLoop(d, items, n, enhanced_lookup) ==
    IF n > Len(items) THEN d
    ELSE AggregateLoop(AppendTo(d, items[n].sutra_sentence.sutra,
                                Metadata(items[n], enhanced_lookup)),
                       items, n + 1, enhanced_lookup)

\* lines 96-138
aggregate_by_sutra(files, enhanced_lookup) ==
    AggregateLoop(<<>>, LoopItems(files, 1, 1, 1), 1, enhanced_lookup)

\* str.split(sep): the parts of t from position p on, cur being the part begun
RECURSIVE SplitFrom(_, _, _, _)
SplitFrom(t, sep, p, cur) ==
    IF p > Len(t) THEN <<cur>>
    ELSE IF t[p] = sep THEN <<cur>> \o SplitFrom(t, sep, p + 1, <<>>)
    ELSE SplitFrom(t, sep, p + 1, Append(cur, t[p]))

Split(t, sep) == SplitFrom(t, sep, 1, <<>>)

\* the value of a decimal digit
DigitValue(c) ==
    CASE c = "0" -> 0 [] c = "1" -> 1 [] c = "2" -> 2 [] c = "3" -> 3 [] c = "4" -> 4
      [] c = "5" -> 5 [] c = "6" -> 6 [] c = "7" -> 7 [] c = "8" -> 8 [] c = "9" -> 9

\* int(p) for a string of digits
RECURSIVE IntOf(_)
IntOf(ds) ==
    IF ds = <<>> THEN 0 ELSE 10 * IntOf(SubSeq(ds, 1, Len(ds) - 1)) + DigitValue(ds[Len(ds)])

\* an element of a key tuple: <<0, n>> is the integer n, <<1, 0>> is float('inf')
Finite(n) == <<0, n>>
Infinite == <<1, 0>>

\* faulty variant: the parts are compared as strings, character by character
\* ('.' comes before every digit)
sutra_key_AsString(sutra) ==
    [i \in 1 .. Len(sutra) |->
        IF IsDigit(sutra[i]) THEN Finite(DigitValue(sutra[i]) + 1)
        ELSE IF sutra[i] = "." THEN Finite(0) ELSE Infinite]

\* lines 142-149: int() raises ValueError for a part that is no number
sutra_key(sutra) ==
    LET parts == Split(sutra, ".")
    IN  IF \A i \in 1 .. Len(parts) : IsDigits(parts[i])
        THEN [i \in 1 .. Len(parts) |-> Finite(IntOf(parts[i]))]
        ELSE <<Infinite>>

\* a < b for two elements of key tuples
ElemLess(a, b) == a[1] < b[1] \/ (a[1] = b[1] /\ a[2] < b[2])

\* a < b for two tuples, as Python compares them
RECURSIVE TupleLess(_, _)
TupleLess(a, b) ==
    IF a = <<>> THEN b # <<>>
    ELSE IF b = <<>> THEN FALSE
    ELSE IF Head(a) = Head(b) THEN TupleLess(Tail(a), Tail(b))
    ELSE ElemLess(Head(a), Head(b))

\* a stable sort puts an item before the first item that is greater
InsertSorted(items, item) ==
    LET greater == {n \in 1 .. Len(items) :
                       TupleLess(sutra_key(item.key), sutra_key(items[n].key))}
    IN  IF greater = {} THEN Append(items, item)
        ELSE SubSeq(items, 1, SetMin(greater) - 1) \o <<item>>
                 \o SubSeq(items, SetMin(greater), Len(items))

\* line 151: sorted(sutra_dict.items(), key=...)
RECURSIVE Sorted(_, _, _)
Sorted(done, items, n) ==
    IF n > Len(items) THEN done
    ELSE Sorted(InsertSorted(done, items[n]), items, n + 1)

\* lines 151-152
sort_sutra_dict(d) == Sorted(<<>>, d, 1)

AggInit ==
    /\ mn = <<>>
    /\ CoreIdle
    /\ data = <<>>
    /\ PipelineIdle
    /\ NoEnrichment
    /\ all_data \in {AllDataOf(pl) : pl \in Placements}
    /\ AggIdle
    /\ NoPada

\* main, line 168
BuildAiRefLookup ==
    /\ pc = "start"
    /\ ai_ref_lookup' = build_ai_ref_lookup(all_data)
    /\ pc' = "lookup_built"
    /\ UNCHANGED <<all_data, sutra_dict, sorted_sutra_dict>>
    /\ UNCHANGED beyondAgg

\* main, line 172
AggregateBySutra ==
    /\ pc = "lookup_built"
    /\ sutra_dict' = aggregate_by_sutra(all_data, ai_ref_lookup)
    /\ pc' = "aggregated"
    /\ UNCHANGED <<all_data, ai_ref_lookup, sorted_sutra_dict>>
    /\ UNCHANGED beyondAgg

\* aggregate_by_sutra(all_data), enhanced_lookup left at its default
AggregateWithoutLookup ==
    /\ pc = "start"
    /\ sutra_dict' = aggregate_by_sutra(all_data, <<>>)
    /\ pc' = "aggregated_plain"
    /\ UNCHANGED <<all_data, ai_ref_lookup, sorted_sutra_dict>>
    /\ UNCHANGED beyondAgg

\* main, line 185
SortSutraDict ==
    /\ pc \in {"aggregated", "aggregated_plain"}
    /\ sorted_sutra_dict' = sort_sutra_dict(sutra_dict)
    /\ pc' = IF pc = "aggregated" THEN "sorted" ELSE "sorted_plain"
    /\ UNCHANGED <<all_data, ai_ref_lookup, sutra_dict>>
    /\ UNCHANGED beyondAgg

AggNext ==
    \/ BuildAiRefLookup
    \/ AggregateBySutra
    \/ AggregateWithoutLookup
    \/ SortSutraDict

AggSpec == AggInit /\ [][AggNext]_vars

\* the places of the records in all_data: file, verse, record
Positions ==
    UNION {UNION {{<<f, v, i>> :
                      i \in 1 .. Len(all_data[f].data[v].sutra_sentences)} :
                  v \in 1 .. Len(all_data[f].data)} :
           f \in 1 .. Len(all_data)}

\* the record at a place
RecAt(t) == all_data[t[1]].data[t[2]].sutra_sentences[t[3]]

\* place a comes before place b: file, then verse, then record
PlaceLess(a, b) ==
    \/ a[1] < b[1]
    \/ a[1] = b[1] /\ a[2] < b[2]
    \/ a[1] = b[1] /\ a[2] = b[2] /\ a[3] < b[3]

\* which of the records with its 'sutra' the record at t is, counted from 1
RankOf(t) ==
    1 + Cardinality({u \in Positions :
                        RecAt(u).sutra = RecAt(t).sutra /\ PlaceLess(u, t)})

\* the list of a key of sutra_dict
ListOf(key) == sutra_dict[KeyIndex(sutra_dict, key)].list

RECURSIVE SumOfLengths(_)
SumOfLengths(d) == IF d = <<>> THEN 0 ELSE Len(Head(d).list) + SumOfLengths(Tail(d))

Aggregated == pc \in {"aggregated", "aggregated_plain", "sorted", "sorted_plain"}

\* C21: every record is in the list of its own 'sutra' key, at the place
\* among the records of that key that its encounter order gives it, and the
\* lists hold nothing else: their lengths add up to the number of records
C21_EveryRecordOnce ==
    Aggregated =>
        /\ \A m \in 1 .. Len(sutra_dict) : \A n \in 1 .. Len(sutra_dict) :
              sutra_dict[m].key = sutra_dict[n].key => m = n
        /\ \A t \in Positions :
              /\ KeyIndex(sutra_dict, RecAt(t).sutra) # 0
              /\ RankOf(t) <= Len(ListOf(RecAt(t).sutra))
              /\ ListOf(RecAt(t).sutra)[RankOf(t)].word = RecAt(t).word
              /\ ListOf(RecAt(t).sutra)[RankOf(t)].text = all_data[t[1]].title
              /\ ListOf(RecAt(t).sutra)[RankOf(t)].loc = all_data[t[1]].data[t[2]].loc
        /\ SumOfLengths(sutra_dict) = Cardinality(Positions)

\* two keys, one of them with records of two files in its list
C21_Witness ==
    /\ Aggregated
    /\ Len(sutra_dict) = 2
    /\ \E n \in 1 .. Len(sutra_dict) :
          /\ Len(sutra_dict[n].list) = 2
          /\ sutra_dict[n].list[1].text = "T1"
          /\ sutra_dict[n].list[2].text = "T2"

\* a key of three numbers joined by dots
WellFormed(key) ==
    /\ Len(Split(key, ".")) = 3
    /\ \A i \in 1 .. 3 : IsDigits(Split(key, ".")[i])

\* chapter, section and rule of a well-formed key
Triple(key) == [i \in 1 .. 3 |-> IntOf(Split(key, ".")[i])]

\* key a has its place before key b: by chapter, then section, then rule,
\* as numbers, and a well-formed key before a malformed one
ComesBefore(a, b) ==
    /\ WellFormed(a)
    /\ \/ ~WellFormed(b)
       \/ Triple(a)[1] < Triple(b)[1]
       \/ Triple(a)[1] = Triple(b)[1] /\ Triple(a)[2] < Triple(b)[2]
       \/ /\ Triple(a)[1] = Triple(b)[1] /\ Triple(a)[2] = Triple(b)[2]
          /\ Triple(a)[3] < Triple(b)[3]

IsSorted == pc \in {"sorted", "sorted_plain"}

\* C22: the sorted dict has the entries of sutra_dict, each key with its
\* list as it was, in non-decreasing order of (chapter, section, rule) as
\* numbers, the malformed keys last, and keys of equal rank in the order
\* they had
C22_SortedByNumbers ==
    IsSorted =>
        /\ Len(sorted_sutra_dict) = Len(sutra_dict)
        /\ \A n \in 1 .. Len(sutra_dict) :
              \E m \in 1 .. Len(sorted_sutra_dict) : sorted_sutra_dict[m] = sutra_dict[n]
        /\ \A i \in 1 .. Len(sorted_sutra_dict) : \A j \in i + 1 .. Len(sorted_sutra_dict) :
              /\ ~ComesBefore(sorted_sutra_dict[j].key, sorted_sutra_dict[i].key)
              /\ ~WellFormed(sorted_sutra_dict[i].key) => ~WellFormed(sorted_sutra_dict[j].key)
              /\ ~ComesBefore(sorted_sutra_dict[i].key, sorted_sutra_dict[j].key) =>
                     KeyIndex(sutra_dict, sorted_sutra_dict[i].key)
                         < KeyIndex(sutra_dict, sorted_sutra_dict[j].key)

\* a malformed key first, then 1.10.1, then 1.2.1: the sort reverses them
C22_Witness ==
    /\ IsSorted
    /\ Len(sutra_dict) = 3
    /\ ~WellFormed(sutra_dict[1].key)
    /\ sutra_dict[2].key = <<"1", ".", "1", "0", ".", "1">>
    /\ sutra_dict[3].key = <<"1", ".", "2", ".", "1">>
    /\ sorted_sutra_dict = <<sutra_dict[3], sutra_dict[2], sutra_dict[1]>>

\* C30: with the lookup built from the same files, the AI_ref of every
\* record in the table is the cleaned description of that record when it
\* has a description, and the sentence of that record when it has none
C30_AiRefFromOwnRecord ==
    pc \in {"aggregated", "sorted"} =>
        \A t \in Positions :
            ListOf(RecAt(t).sutra)[RankOf(t)].AI_ref =
                IF RecAt(t).description # <<>>
                THEN clean_ai_ref_description(RecAt(t).description)
                ELSE RecAt(t).sentence

(***************************************************************************)
(* add_pada_field.py: find_pada_for_word                                   *)
(***************************************************************************)
MaxPadaPieces == 3

PadaPieces == {<<"a", "b">>, <<"c", "d">>, <<"x">>, <<" ">>, <<"D">>, <<"W">>}

VerseTexts ==
    {Join(ps) : ps \in UNION {[1 .. n -> PadaPieces] : n \in 0 .. MaxPadaPieces}}

Words ==
    {<<>>, <<"a">>, <<"a", "b">>, <<"c", "d", "a">>, <<"a", "b", "c", "d">>,
     <<"c", "d", "c", "d">>}

NonBlank(p) == Strip(p) # <<>>
NotDoubleDanda(c) == c # "W"

\* line 26: p.strip().replace('W', '').strip()
CleanPart(p) == Strip(SelectSeq(Strip(p), NotDoubleDanda))

\* lines 23-26
Padas(text) ==
    LET parts == SelectSeq(Split(text, "D"), NonBlank)
    IN  [i \in 1 .. Len(parts) |-> CleanPart(parts[i])]

\* the first of padas that contains sub, or 0
FirstContaining(padas, sub) ==
    IF \E i \in 1 .. Len(padas) : Contains(padas[i], sub)
    THEN SetMin({i \in 1 .. Len(padas) : Contains(padas[i], sub)})
    ELSE 0

\* lines 35-42: the first half of a word of more than three characters, then
\* the first pada, then the verse
AfterNoMatch(text, w, padas) ==
    IF Len(w) > 3 /\ FirstContaining(padas, SubSeq(w, 1, Len(w) \div 2)) # 0
    THEN padas[FirstContaining(padas, SubSeq(w, 1, Len(w) \div 2))]
    ELSE IF padas # <<>> THEN padas[1] ELSE text

\* lines 29-31, then the rest
PadaAmong(text, w, padas) ==
    IF FirstContaining(padas, w) # 0 THEN padas[FirstContaining(padas, w)]
    ELSE AfterNoMatch(text, w, padas)

\* lines 12-42
find_pada_for_word(text, w) ==
    IF w = <<>> \/ text = <<>> THEN <<>> ELSE PadaAmong(text, w, Padas(text))

PadaInit ==
    /\ mn = <<>>
    /\ CoreIdle
    /\ data = <<>>
    /\ PipelineIdle
    /\ NoEnrichment
    /\ NoAggregation
    /\ verse_text \in VerseTexts
    /\ word \in Words
    /\ pada = <<>>

\* add_pada_field, line 70: pada = find_pada_for_word(verse_text, word)
FindPadaForWord ==
    /\ pc = "start"
    /\ pada' = find_pada_for_word(verse_text, word)
    /\ pc' = "pada_found"
    /\ UNCHANGED <<verse_text, word>>
    /\ UNCHANGED beyondPada

PadaNext == FindPadaForWord

PadaSpec == PadaInit /\ [][PadaNext]_vars

\* some danda-separated part of the verse contains the word
WordInSomePada ==
    \E i \in 1 .. Len(Padas(verse_text)) : Contains(Padas(verse_text)[i], word)

\* C27: the result is empty when the word or the verse is empty; otherwise
\* it is a danda-separated part of the verse that contains the word, or the
\* whole verse when no part contains the word
C27_PadaOfWord ==
    pc = "pada_found" =>
        IF word = <<>> \/ verse_text = <<>> THEN pada = <<>>
        ELSE IF WordInSomePada
             THEN /\ \E i \in 1 .. Len(Padas(verse_text)) : pada = Padas(verse_text)[i]
                  /\ Contains(pada, word)
             ELSE pada = verse_text

====
